---- MODULE Spec2Model ----
(***************************************************************************)
(* A model of the Mezopotamya.Travel backend (mezopotamya-backend/main.py):*)
(* the startup routine init_db, the generation chain query_llm /           *)
(* generate_simple_response, and the request handlers chat_endpoint,       *)
(* get_chat_history, ingest_document, search_documents, delete_document,   *)
(* get_qdrant_status, generate_itinerary and generate_route.               *)
(*                                                                         *)
(* The modules document_processor, vector_store and rag_service are        *)
(* imported by main.py but are not part of the available source; the       *)
(* operators that stand for their methods follow the written specification *)
(* and are marked so where they are defined.                               *)
(*                                                                         *)
(* Texts are sequences of words.  Python's `needle in text` is containment *)
(* of a contiguous run of words, and str.lower() is applied word by word.  *)
(* Words are written in ASCII: o, u, s, g, c stand for the Turkish letters *)
(* with diacritics, and the dotless i is written 1 (ulas1m), so that it    *)
(* stays distinct from the dotted i that str.lower() makes of "I".         *)
(***************************************************************************)
EXTENDS Integers, Sequences, FiniteSets, TLC

\* ------------------------------------------------------------------ bounds
\* Highest document id the documents table hands out in a run.
MaxDocs == 1
\* Most chunks the chunker produces for one document (it produces at least one).
MaxChunks == 2
\* Number of requests to the document endpoints that may be in progress together.
NumReq == 2
\* Number of chat requests served in a run.
MaxChats == 1
\* Most itinerary rows and most route rows persisted in a run.
MaxPlans == 2
\* Largest top_k of a search request.
MaxTopK == 1
\* Highest document id handed out in a run that only ingests and deletes.
MaxIds == 2
\* Largest top_k in a run that only ingests and searches.
MaxLimit == 2
\* Largest limit of a chat history request.
MaxHistory == 2
\* Most words of a text handed to generate_simple_response.
MaxWords == 3
\* Number of times the program is started against one database file.
MaxRuns == 2

\* ------------------------------------------------------------------- texts
\* str.lower() on the words used here.  "I".lower() is "i" (dotted), so the
\* upper-case Turkish word ULASIM does not become "ulas1m".
Lower(w) ==
    CASE w = "Gobeklitepe" -> "gobeklitepe"
      [] w = "OTEL"        -> "otel"
      [] w = "ULASIM"      -> "ulasim"
      [] w = "Sen"         -> "sen"
      [] w = "Mezopotamya" -> "mezopotamya"
      [] w = "Kullan1c1"   -> "kullan1c1"
      [] w = "Bolgedeki"   -> "bolgedeki"
      [] w = "Bal1kl1gol"  -> "bal1kl1gol"
      [] w = "Nemrut"      -> "nemrut"
      [] w = "Dag1"        -> "dag1"
      [] w = "Harran"      -> "harran"
      [] w = "Mardin"      -> "mardin"
      [] w = "Hasankeyf"   -> "hasankeyf"
      [] w = "Kullan1c1ya" -> "kullan1c1ya"
      [] w = "Dil:"        -> "dil:"
      [] OTHER             -> w

LowerText(t) == [i \in DOMAIN t |-> Lower(t[i])]

\* needle in text
Contains(text, needle) ==
    \E i \in 1..(Len(text) - Len(needle) + 1) :
        SubSeq(text, i, i + Len(needle) - 1) = needle

\* The five canned answers of generate_simple_response.
AnsLandmark  == <<"Gobeklitepe,", "dunyan1n", "en", "eski", "tap1nak", "kompleksidir.">>
AnsLodging   == <<"Bolgede", "bircok", "otel", "secenegi", "bulunmaktad1r.">>
AnsFood      == <<"GAP", "bolgesi", "zengin", "mutfag1yla", "unludur.">>
AnsTransport == <<"Bolgeye", "havayolu", "ile", "ulasabilirsiniz.">>
AnsDefault   == <<"GAP", "bolgesi,", "sizi", "bekliyor.">>

\* generate_simple_response asking for the lodging words first.
generate_simple_response_LodgingFirst(prompt) ==
    LET prompt_lower == LowerText(prompt) IN
    IF Contains(prompt_lower, <<"otel">>) \/ Contains(prompt_lower, <<"konaklama">>)
    THEN AnsLodging
    ELSE IF Contains(prompt_lower, <<"gobeklitepe">>) THEN AnsLandmark
    ELSE IF Contains(prompt_lower, <<"yemek">>) \/ Contains(prompt_lower, <<"ne", "yenir">>)
         THEN AnsFood
    ELSE IF Contains(prompt_lower, <<"ulas1m">>) THEN AnsTransport
    ELSE AnsDefault

\* generate_simple_response, lines 446-459.
generate_simple_response(prompt) ==
    LET prompt_lower == LowerText(prompt) IN
    IF Contains(prompt_lower, <<"gobeklitepe">>) THEN AnsLandmark
    ELSE IF Contains(prompt_lower, <<"otel">>) \/ Contains(prompt_lower, <<"konaklama">>)
         THEN AnsLodging
    ELSE IF Contains(prompt_lower, <<"yemek">>) \/ Contains(prompt_lower, <<"ne", "yenir">>)
         THEN AnsFood
    ELSE IF Contains(prompt_lower, <<"ulas1m">>) THEN AnsTransport
    ELSE AnsDefault

\* Texts for generate_simple_response: every sequence of at most MaxWords
\* words, among them each trigger word, in upper case too, and the two words
\* of "ne yenir".
Vocabulary ==
    {"Gobeklitepe", "otel", "OTEL", "konaklama", "yemek", "ne", "yenir", "ulas1m",
     "ULASIM", "merhaba"}
Texts == UNION {[1..n -> Vocabulary] : n \in 0..MaxWords}

\* The prompt chat_endpoint builds around the user's message.
ChatPrompt(message, language) ==
    <<"Sen", "Mezopotamya", "bolgesi", "turizm", "asistan1s1n.", "Kullan1c1", "sorusu:">>
    \o message
    \o <<"Bolgedeki", "onemli", "yerler:", "Gobeklitepe", "Bal1kl1gol", "Nemrut",
         "Dag1", "Harran", "Mardin", "Hasankeyf">>
    \o <<"Kullan1c1ya", "yard1mc1", "ol,", "k1sa", "ve", "oz", "cevap", "ver.",
         "Dil:", language>>

\* What requests.post can come back with: a raised error (connection failure),
\* or an HTTP response with a status and a body; a body either parses to an
\* object with a 'response' text, or does not (not JSON, or no such key).
LlmTexts == { << >>, <<"Harran", "antik", "bir", "sehirdir.">> }
Replies ==
    { [kind |-> "raised", status |-> 0, parses |-> FALSE, response |-> << >>] }
    \cup { [kind |-> "http", status |-> 500, parses |-> FALSE, response |-> << >>] }
    \cup { [kind |-> "http", status |-> 200, parses |-> FALSE, response |-> << >>] }
    \cup { [kind |-> "http", status |-> 200, parses |-> TRUE, response |-> t] : t \in LlmTexts }

\* query_llm with a fallback that is also taken when the service answers with
\* an empty text.
query_llm_FallbackOnEmpty(prompt, reply) ==
    IF reply.kind = "http" /\ reply.status = 200 /\ reply.parses /\ reply.response # << >>
    THEN [ret |-> reply.response, fallback |-> 0]
    ELSE [ret |-> generate_simple_response(prompt), fallback |-> 1]

\* query_llm once requests.post has come back with `reply`: the value returned
\* and the number of times generate_simple_response was called.
query_llm(prompt, reply) ==
    IF reply.kind = "http" /\ reply.status = 200 /\ reply.parses
    THEN [ret |-> reply.response, fallback |-> 0]
    ELSE [ret |-> generate_simple_response(prompt), fallback |-> 1]

\* ------------------------------------------------------------------ inputs
Users     == {"user1", "user2"}
Languages == {"tr", "en"}
Messages ==
    { <<"merhaba">>,
      <<"Gobeklitepe", "nerede">>,
      <<"OTEL", "onerisi">>,
      <<"konaklama", "ve", "yemek">>,
      <<"ne", "yenir">>,
      <<"ne", "zaman", "yenir">>,
      <<"ulas1m", "ve", "otel">>,
      <<"ULASIM">> }
\* The text a successful rag_service.query carries in result['response'].
RagAnswer == <<"Kaynaklara", "gore", "Harran", "cok", "eskidir.">>

None == "None"
Obj  == "object"
NoReply == [kind |-> "none", status |-> 0, parses |-> FALSE, response |-> << >>]
NoChat ==
    [pc |-> "idle", user_id |-> "", message |-> << >>, language |-> "",
     prompt |-> << >>, posts |-> 0, reply |-> NoReply, fallbacks |-> 0,
     via |-> "", status |-> 0, response |-> << >>]

VARIABLES
    booted,              \* init_db has run
    env,                 \* the environment variables init_db reads
    vector_store,        \* the three module globals set by init_db
    document_processor,
    rag_service,
    qdrantUp,            \* the vector database answers at this moment
    chat,                \* the chat request being served, and its outcome
    chatsServed,         \* number of chat requests started
    conversations,       \* rows of the conversations table, oldest first
    documents,           \* rows of the documents table: [id, type]
    nextDocId,           \* the id AUTOINCREMENT gives the next documents row
    chunks,              \* rows of document_chunks: [document_id, chunk_index, vector_id]
    index,               \* records of the vector index, in insertion order
    pc,                  \* where each request to a document endpoint stands
    local,               \* the local variables of each such request
    resp,                \* the response sent last
    ingestedOk,          \* ids returned by ingest_document with status "success"
    deletedOk,           \* ids of created documents that delete_document reported "deleted"
    itineraries,         \* number of rows of the itineraries table
    routes,              \* number of rows of the routes table
    destinations         \* rows of the destinations table, by id: [id, name, category]

handles  == <<vector_store, document_processor, rag_service>>
chatVars == <<chat, chatsServed, conversations>>
dbVars   == <<documents, nextDocId, chunks>>
reqVars  == <<pc, local>>
ghosts   == <<ingestedOk, deletedOk>>
planVars == <<itineraries, routes>>

vars == <<booted, env, handles, qdrantUp, chatVars, dbVars, index, reqVars, resp, ghosts,
          planVars, destinations>>

Req == 1..NumReq
NoLocal == [doc |-> 0, n |-> 0, type |-> ""]
NoResp  == [op |-> "none", status |-> 0]

\* --------------------------------------------------------------- startup
\* The texts CHUNK_SIZE and CHUNK_OVERLAP can hold in the environment; the
\* first of each is the default os.getenv falls back to.
ChunkSizeTexts    == {"512", "40", "0", "abc"}
ChunkOverlapTexts == {"50", "-1", "5o"}
DefaultEnv == [CHUNK_SIZE |-> "512", CHUNK_OVERLAP |-> "50"]
Envs == [CHUNK_SIZE : ChunkSizeTexts, CHUNK_OVERLAP : ChunkOverlapTexts]

\* int(text): the number a decimal text stands for, or a ValueError.
ParseInt(text) ==
    CASE text = "512" -> [ok |-> TRUE, value |-> 512]
      [] text = "50"  -> [ok |-> TRUE, value |-> 50]
      [] text = "40"  -> [ok |-> TRUE, value |-> 40]
      [] text = "0"   -> [ok |-> TRUE, value |-> 0]
      [] text = "-1"  -> [ok |-> TRUE, value |-> 0 - 1]
      [] OTHER        -> [ok |-> FALSE, value |-> 0]

\* init_db, lines 196-205: sample_destinations, by name and category (the
\* other columns are texts and a rating that nothing here reads).
sample_destinations ==
    << [name |-> "Gobeklitepe", category |-> "Tarihi"],
       [name |-> "Bal1kl1gol", category |-> "Dini"],
       [name |-> "Nemrut Dag1", category |-> "Tarihi"],
       [name |-> "Harran", category |-> "Tarihi"],
       [name |-> "Hasankeyf", category |-> "Tarihi"],
       [name |-> "Mardin Kalesi", category |-> "Tarihi"],
       [name |-> "Diyarbak1r Surlar1", category |-> "Tarihi"],
       [name |-> "Zeugma Mozaik Muzesi", category |-> "Muze"] >>

\* init_db, lines 120-131 and 207-208: executemany of INSERT OR IGNORE over
\* the sample rows.  The table's only key is the AUTOINCREMENT id, which the
\* statement does not supply, so no row conflicts with a stored one and each
\* is appended under the next id.  No handler deletes from the table, so the
\* next id is one more than the number of rows.
InsertSamples(table) ==
    table \o [i \in DOMAIN sample_destinations |->
                 [id |-> Len(table) + i,
                  name |-> sample_destinations[i].name,
                  category |-> sample_destinations[i].category]]

\* init_db, lines 112-242: the tables are created if absent, the sample
\* destinations are inserted, then the three try blocks.
\* ctorOk: VectorStore() does not raise; ensureOk: ensure_collection does not raise; dpOk:
\* DocumentProcessor() does not raise when given the parsed chunk settings;
\* ragOk: RAGService() does not raise.  is_connected() reports whether the
\* database answers.  A chunk setting that int() rejects raises inside the
\* second try block.
init_db(ctorOk, ensureOk, dpOk, ragOk) ==
    LET vs == IF ~ctorOk THEN None
              ELSE IF qdrantUp /\ ~ensureOk THEN None
              ELSE Obj
        chunk_size    == ParseInt(env.CHUNK_SIZE)
        chunk_overlap == ParseInt(env.CHUNK_OVERLAP)
        dp == IF chunk_size.ok /\ chunk_overlap.ok /\ dpOk THEN Obj ELSE None
        rs == IF vs # None /\ dp # None /\ ragOk THEN Obj ELSE None
    IN  /\ ~booted
        /\ booted' = TRUE
        /\ vector_store' = vs
        /\ document_processor' = dp
        /\ rag_service' = rs
        /\ destinations' = InsertSamples(destinations)
        /\ UNCHANGED <<env, qdrantUp, chatVars, dbVars, index, reqVars, resp, ghosts, planVars>>

\* The vector database becomes unreachable, or reachable again.
QdrantFlips ==
    /\ qdrantUp' = ~qdrantUp
    /\ UNCHANGED <<booted, env, destinations, handles, chatVars, dbVars, index, reqVars, resp, ghosts, planVars>>

\* ------------------------------------------------------------------ chat
\* CURRENT_TIMESTAMP counts whole seconds: a new conversations row is stamped
\* with the second of the row before it, or with a later one.
Stamps ==
    IF conversations = << >> THEN {1}
    ELSE LET last == conversations[Len(conversations)].timestamp
         IN  {last, last + 1}

\* chat_endpoint returning its answer without the INSERT into conversations.
ChatSaveAndReturn_ReturnOnly(c, response, via) ==
    /\ UNCHANGED conversations
    /\ chat' = [c EXCEPT !.pc = "done", !.status = 200, !.response = response,
                         !.via = via]

\* The INSERT into conversations and the return of chat_endpoint, lines 549-557.
ChatSaveAndReturn(c, response, via) ==
    /\ \E ts \in Stamps :
          conversations' = Append(conversations,
                                  [user_id |-> c.user_id, message |-> c.message,
                                   response |-> response, timestamp |-> ts])
    /\ chat' = [c EXCEPT !.pc = "done", !.status = 200, !.response = response,
                         !.via = via]

\* chat_endpoint when rag_service is set and rag_service.query returns.
ChatRag(u, m, l) ==
    /\ booted /\ chat.pc \in {"idle", "done"} /\ chatsServed < MaxChats
    /\ rag_service # None
    /\ chatsServed' = chatsServed + 1
    /\ ChatSaveAndReturn([NoChat EXCEPT !.user_id = u, !.message = m, !.language = l],
                         RagAnswer, "rag")
    /\ UNCHANGED <<booted, env, destinations, handles, qdrantUp, dbVars, index, reqVars, resp, ghosts, planVars>>

\* The fallback to the basic LLM: the prompt is built and query_llm posts it.
ChatPostPrompt(u, m, l) ==
    /\ chatsServed' = chatsServed + 1
    /\ chat' = [NoChat EXCEPT !.pc = "llm_wait", !.user_id = u, !.message = m,
                              !.language = l, !.prompt = ChatPrompt(m, l),
                              !.posts = 1]
    /\ UNCHANGED <<booted, env, destinations, handles, qdrantUp, conversations, dbVars, index, reqVars, resp, ghosts, planVars>>

\* chat_endpoint without the except clause around rag_service.query: the error
\* reaches the caller as a 500.
ChatRagFails_NoCatch(u, m, l) ==
    /\ booted /\ chat.pc \in {"idle", "done"} /\ chatsServed < MaxChats
    /\ rag_service # None
    /\ chatsServed' = chatsServed + 1
    /\ chat' = [NoChat EXCEPT !.pc = "done", !.user_id = u, !.message = m,
                              !.language = l, !.status = 500]
    /\ UNCHANGED <<booted, env, destinations, handles, qdrantUp, conversations, dbVars, index, reqVars, resp, ghosts, planVars>>

\* chat_endpoint when rag_service is set and rag_service.query raises
\* (lines 531-539).
ChatRagFails(u, m, l) ==
    /\ booted /\ chat.pc \in {"idle", "done"} /\ chatsServed < MaxChats
    /\ rag_service # None
    /\ ChatPostPrompt(u, m, l)

\* chat_endpoint when rag_service is None (lines 540-547).
ChatNoRag(u, m, l) ==
    /\ booted /\ chat.pc \in {"idle", "done"} /\ chatsServed < MaxChats
    /\ rag_service = None
    /\ ChatPostPrompt(u, m, l)

\* requests.post comes back; query_llm returns and chat_endpoint saves the
\* conversation and answers.
LlmReplies(reply) ==
    /\ chat.pc = "llm_wait"
    /\ LET r == query_llm(chat.prompt, reply) IN
       ChatSaveAndReturn([chat EXCEPT !.reply = reply, !.fallbacks = r.fallback],
                         r.ret, "llm")
    /\ UNCHANGED <<booted, env, destinations, handles, qdrantUp, chatsServed, dbVars, index, reqVars, resp, ghosts, planVars>>

\* The generation service has accepted the request and will never answer.
\* requests.post is called without a timeout, so nothing wakes the caller.
LlmSilent ==
    /\ chat.pc = "llm_wait"
    /\ chat' = [chat EXCEPT !.pc = "llm_hung"]
    /\ UNCHANGED <<booted, env, destinations, handles, qdrantUp, chatsServed, conversations, dbVars, index, reqVars, resp, ghosts, planVars>>

\* The positions of the conversations rows of a user.
RowsOfUser(user_id) == {i \in DOMAIN conversations : conversations[i].user_id = user_id}

\* ORDER BY timestamp DESC: the ways of listing the rows of a user, newest
\* first; rows of the same second may come in either order.
NewestFirst(user_id) ==
    LET rows == RowsOfUser(user_id)
        n == Cardinality(rows)
    IN  {f \in [1..n -> rows] :
            /\ \A a, b \in 1..n : a # b => f[a] # f[b]
            /\ \A a, b \in 1..n :
                  a < b => conversations[f[a]].timestamp >= conversations[f[b]].timestamp}

\* get_chat_history, lines 846-865: the newest `limit` rows of the user.
get_chat_history(user_id, limit) ==
    /\ booted
    /\ \E f \in NewestFirst(user_id) :
          LET n == IF Len(f) < limit THEN Len(f) ELSE limit
              history == [a \in 1..n |->
                            [message |-> conversations[f[a]].message,
                             response |-> conversations[f[a]].response,
                             timestamp |-> conversations[f[a]].timestamp]]
          IN  resp' = [op |-> "history", status |-> 200, user_id |-> user_id,
                       limit |-> limit, history |-> history]
    /\ UNCHANGED <<booted, env, destinations, handles, qdrantUp, chatVars, dbVars, index, reqVars, ghosts,
                   planVars>>

\* ------------------------------------------------------------- documents
DocTypes == {"route", "general"}
DocIds   == 1..MaxDocs
\* filter_type of a search request: absent (null), the empty string, or a type.
FilterInputs == {None, ""} \cup DocTypes
TopKs == 1..MaxTopK
\* The query texts of the search requests.
Queries == {"gobeklitepe tarihi", "mardin otelleri"}

\* f"{document_id}_{chunk_index}", line 959
VectorId(document_id, chunk_index) ==
    ToString(document_id) \o "_" \o ToString(chunk_index)

\* The chunk counts of the shortest and of the longest document.
ChunkCounts == {1, MaxChunks}

\* The chunk_index values the chunker gives the n chunks of a document.
ChunkIndexes(n) == 0..(n - 1)

\* The rows and records of a document with n chunks of type t, as a finished
\* ingest_document leaves them.
ChunkRows(d, n) ==
    {[document_id |-> d, chunk_index |-> i, vector_id |-> VectorId(d, i)] :
        i \in ChunkIndexes(n)}
ChunkRecords(d, n, t) ==
    [i \in 1..n |-> [vector_id |-> VectorId(d, i - 1), document_id |-> d,
                     chunk_index |-> i - 1, type |-> t]]

\* The state before init_db runs, the two stores aside.
InitServices ==
    /\ booted = FALSE
    /\ vector_store = None
    /\ document_processor = None
    /\ rag_service = None
    /\ qdrantUp \in BOOLEAN
    /\ chat = NoChat
    /\ chatsServed = 0
    /\ pc = [r \in Req |-> "idle"]
    /\ local = [r \in Req |-> NoLocal]
    /\ resp = NoResp
    /\ ingestedOk = {}
    /\ deletedOk = {}
    /\ itineraries = 0
    /\ routes = 0

EmptyStores ==
    /\ documents = {}
    /\ nextDocId = 1
    /\ chunks = {}
    /\ index = << >>
    /\ destinations = << >>

\* The database file and the vector index outlive the process: a document
\* ingested by an earlier run is still there at startup.
KeptStores ==
    /\ documents = {[id |-> 1, type |-> "general"]}
    /\ nextDocId = 2
    /\ chunks = ChunkRows(1, 1)
    /\ index = ChunkRecords(1, 1, "general")
    /\ destinations = InsertSamples(<< >>)

\* Neither chunk setting is set in the environment: os.getenv gives the defaults.
DefaultSettings == env = DefaultEnv
EmptyLog == conversations = << >>

Init == InitServices /\ DefaultSettings /\ EmptyLog /\ EmptyStores

InitDocs == InitServices /\ DefaultSettings /\ EmptyLog /\ (EmptyStores \/ KeptStores)

RowsOf(d)    == {c \in chunks : c.document_id = d}
RecordsOf(d) == {i \in DOMAIN index : index[i].document_id = d}
IndexIds     == {index[i].vector_id : i \in DOMAIN index}

\* VectorStore.add_documents: every record of the call is written, a record
\* with a known vector_id in place, a new one at the end.
Upsert(idx, records) ==
    LET known == {idx[i].vector_id : i \in DOMAIN idx}
        kept  == [i \in DOMAIN idx |->
                    IF \E j \in DOMAIN records : records[j].vector_id = idx[i].vector_id
                    THEN records[CHOOSE j \in DOMAIN records :
                                    records[j].vector_id = idx[i].vector_id]
                    ELSE idx[i]]
        fresh == SelectSeq(records, LAMBDA rec : rec.vector_id \notin known)
    IN  kept \o fresh

\* VectorStore.delete_document: every record of the document is removed.
DeleteByDocument(idx, d) == SelectSeq(idx, LAMBDA rec : rec.document_id # d)

\* The similarity, in hundredths, between the embedding of a query and the
\* vector of a record.  The first query is closest to the opening chunk of
\* every document (equal scores across documents); the second is closer the
\* later the chunk and the later the document.
Score(query, rec) ==
    IF query = "gobeklitepe tarihi"
    THEN 90 - 10 * rec.chunk_index
    ELSE 40 + 10 * rec.chunk_index + rec.document_id

\* The position of the best hit: the highest score, the earliest among equals.
Best(hits) ==
    CHOOSE i \in DOMAIN hits :
        \A j \in DOMAIN hits :
            hits[j].score < hits[i].score \/ (hits[j].score = hits[i].score /\ i <= j)

RECURSIVE BestFirst(_)
BestFirst(hits) ==
    IF hits = << >> THEN << >>
    ELSE LET i == Best(hits)
         IN  <<hits[i]>> \o BestFirst(SubSeq(hits, 1, i - 1) \o SubSeq(hits, i + 1, Len(hits)))

\* VectorStore.search: the records that pass the filter, each with its score,
\* best first, at most `limit` of them.
Search(idx, query, limit, filter_dict) ==
    LET passing == SelectSeq(idx, LAMBDA rec : filter_dict = None \/ rec.type = filter_dict)
        hits == [i \in DOMAIN passing |->
                    [vector_id |-> passing[i].vector_id,
                     document_id |-> passing[i].document_id,
                     chunk_index |-> passing[i].chunk_index,
                     type |-> passing[i].type,
                     score |-> Score(query, passing[i])]]
        ranked == BestFirst(hits)
    IN  SubSeq(ranked, 1, IF Len(ranked) < limit THEN Len(ranked) ELSE limit)

\* The guard of ingest_document that looks at the document processor only.
IngestAvailable_ProcessorOnly == document_processor # None

\* `if not document_processor or not vector_store`, lines 932 and 1037
IngestAvailable == document_processor # None /\ vector_store # None
SearchAvailable == document_processor # None /\ vector_store # None
\* `if not vector_store`, line 1196
DeleteAvailable == vector_store # None

\* Two workers: enough for two requests to overlap.
IdWorkers == {r \in Req : r <= 2}
OneWorker == {r \in Req : r = 1}

\* A new request is taken by the first worker that is free.
Free(r) == pc[r] = "idle" /\ \A q \in Req : q < r => pc[q] # "idle"

Respond(r, response) ==
    /\ resp' = response
    /\ pc' = [pc EXCEPT ![r] = "idle"]
    /\ local' = [local EXCEPT ![r] = NoLocal]

\* ingest_document, lines 932-933: 503 before anything is done.
IngestRejected(r) ==
    /\ booted /\ Free(r)
    /\ ~IngestAvailable
    /\ Respond(r, [op |-> "ingest", status |-> 503])
    /\ UNCHANGED <<booted, env, destinations, handles, qdrantUp, chatVars, dbVars, index, ghosts, planVars>>

\* f"Error ingesting document: {str(e)}", line 981
IngestErrorDetail == "Error ingesting document"

\* ingest_document failing only after the documents row has been inserted and
\* committed.
IngestProcessingFails_AfterInsert(r) ==
    /\ booted /\ Free(r)
    /\ IngestAvailable
    /\ nextDocId <= MaxDocs
    /\ documents' = documents \cup {[id |-> nextDocId, type |-> "general"]}
    /\ nextDocId' = nextDocId + 1
    /\ UNCHANGED chunks
    /\ Respond(r, [op |-> "ingest", status |-> 500, detail |-> IngestErrorDetail])
    /\ UNCHANGED <<booted, env, destinations, handles, qdrantUp, chatVars, index, ghosts, planVars>>

\* ingest_document when process_document or embed_chunks raises: lines 937-945
\* are left for the except clause of line 980.
IngestProcessingFails(r) ==
    /\ booted /\ Free(r)
    /\ IngestAvailable
    /\ Respond(r, [op |-> "ingest", status |-> 500, detail |-> IngestErrorDetail])
    /\ UNCHANGED <<booted, env, destinations, handles, qdrantUp, chatVars, dbVars, index, ghosts, planVars>>

\* The largest id among the rows of the documents table, 0 when it is empty.
MaxRowId == IF documents = {} THEN 0
            ELSE CHOOSE m \in {d.id : d \in documents} :
                    \A d \in documents : d.id <= m

\* ingest_document over a documents table whose id is a plain INTEGER PRIMARY
\* KEY: the new row gets the largest id in the table plus one.
IngestCommit_RowidReuse(r, n, t) ==
    /\ booted /\ Free(r)
    /\ IngestAvailable
    /\ LET document_id == MaxRowId + 1 IN
       /\ documents' = documents \cup {[id |-> document_id, type |-> t]}
       /\ nextDocId' = nextDocId + 1
       /\ chunks' = chunks \cup ChunkRows(document_id, n)
       /\ pc' = [pc EXCEPT ![r] = "ingest_add"]
       /\ local' = [local EXCEPT ![r] = [doc |-> document_id, n |-> n, type |-> t]]
    /\ UNCHANGED <<booted, env, destinations, handles, qdrantUp, chatVars, index, resp, ghosts, planVars>>

\* ingest_document, lines 937-969: the document is chunked into n chunks and
\* embedded, the documents row and the n chunk rows are inserted and committed.
\* AUTOINCREMENT (line 154) makes lastrowid larger than every id given before.
IngestCommit(r, n, t) ==
    /\ booted /\ Free(r)
    /\ IngestAvailable
    /\ LET document_id == nextDocId IN
       /\ documents' = documents \cup {[id |-> document_id, type |-> t]}
       /\ nextDocId' = nextDocId + 1
       /\ chunks' = chunks \cup ChunkRows(document_id, n)
       /\ pc' = [pc EXCEPT ![r] = "ingest_add"]
       /\ local' = [local EXCEPT ![r] = [doc |-> document_id, n |-> n, type |-> t]]
    /\ UNCHANGED <<booted, env, destinations, handles, qdrantUp, chatVars, index, resp, ghosts, planVars>>

\* ingest_document taking the document id from the newest row of the table
\* when it builds the index records and the response.
IngestAdd_LastIdOfTable(r) ==
    /\ pc[r] = "ingest_add"
    /\ LET l == local[r]
           document_id == nextDocId - 1
           records == ChunkRecords(document_id, l.n, l.type)
       IN IF qdrantUp
          THEN /\ index' = Upsert(index, records)
               /\ ingestedOk' = ingestedOk \cup {document_id}
               /\ Respond(r, [op |-> "ingest", status |-> 200,
                              document_id |-> document_id, chunks_created |-> l.n])
          ELSE /\ Respond(r, [op |-> "ingest", status |-> 500,
                              detail |-> IngestErrorDetail])
               /\ UNCHANGED <<index, ingestedOk>>
    /\ UNCHANGED <<booted, env, destinations, handles, qdrantUp, chatVars, dbVars, deletedOk, planVars>>

\* ingest_document, lines 972-981: vector_store.add_documents, then the
\* success response; an error of add_documents becomes a 500.
IngestAdd(r) ==
    /\ pc[r] = "ingest_add"
    /\ LET l == local[r]
           records == ChunkRecords(l.doc, l.n, l.type)
       IN IF qdrantUp
          THEN /\ index' = Upsert(index, records)
               /\ ingestedOk' = ingestedOk \cup {l.doc}
               /\ Respond(r, [op |-> "ingest", status |-> 200, document_id |-> l.doc,
                              chunks_created |-> l.n])
          ELSE /\ Respond(r, [op |-> "ingest", status |-> 500,
                              detail |-> IngestErrorDetail])
               /\ UNCHANGED <<index, ingestedOk>>
    /\ UNCHANGED <<booted, env, destinations, handles, qdrantUp, chatVars, dbVars, deletedOk, planVars>>

\* search_documents, lines 1037-1038.
SearchRejected(r) ==
    /\ booted /\ Free(r)
    /\ ~SearchAvailable
    /\ Respond(r, [op |-> "search", status |-> 503])
    /\ UNCHANGED <<booted, env, destinations, handles, qdrantUp, chatVars, dbVars, index, ghosts, planVars>>

\* `if search.filter_type:`, lines 1045-1047: null and the empty string both
\* leave the search unfiltered.
FilterDict(filter_type) == IF filter_type \in {None, ""} THEN None ELSE filter_type

\* search_documents when embed_text or vector_store.search raises: the except
\* clause of line 1061.  The vector database being down is one such case.
SearchFails(r) ==
    /\ booted /\ Free(r)
    /\ SearchAvailable
    /\ Respond(r, [op |-> "search", status |-> 500])
    /\ UNCHANGED <<booted, env, destinations, handles, qdrantUp, chatVars, dbVars, index, ghosts, planVars>>

\* search_documents answering with as many results as were asked for, whatever
\* the index returned.
search_documents_CountIsTopK(r, query, top_k, filter_type) ==
    /\ booted /\ Free(r)
    /\ SearchAvailable
    /\ qdrantUp
    /\ LET filter_dict == FilterDict(filter_type)
           results == Search(index, query, top_k, filter_dict)
       IN Respond(r, [op |-> "search", status |-> 200, query |-> query,
                      results |-> results, count |-> top_k,
                      top_k |-> top_k, filter_type |-> filter_type,
                      embeds |-> 1, searches |-> 1])
    /\ UNCHANGED <<booted, env, destinations, handles, qdrantUp, chatVars, dbVars, index, ghosts, planVars>>

\* search_documents, lines 1040-1060: the query is embedded, the index is
\* searched once and its results are returned.  top_k and filter_type are kept
\* from the request, embeds and searches count the calls made.
search_documents(r, query, top_k, filter_type) ==
    /\ booted /\ Free(r)
    /\ SearchAvailable
    /\ qdrantUp
    /\ LET filter_dict == FilterDict(filter_type)
           results == Search(index, query, top_k, filter_dict)
       IN Respond(r, [op |-> "search", status |-> 200, query |-> query,
                      results |-> results, count |-> Len(results),
                      top_k |-> top_k, filter_type |-> filter_type,
                      embeds |-> 1, searches |-> 1])
    /\ UNCHANGED <<booted, env, destinations, handles, qdrantUp, chatVars, dbVars, index, ghosts, planVars>>

\* delete_document, lines 1196-1197.
DeleteRejected(r) ==
    /\ booted /\ Free(r)
    /\ ~DeleteAvailable
    /\ Respond(r, [op |-> "delete", status |-> 503])
    /\ UNCHANGED <<booted, env, destinations, handles, qdrantUp, chatVars, dbVars, index, ghosts, planVars>>

\* delete_document giving up the vector store when its call fails.
DeleteVectors_DropsStore(r, doc_id) ==
    /\ booted /\ Free(r)
    /\ DeleteAvailable
    /\ IF qdrantUp
       THEN /\ index' = DeleteByDocument(index, doc_id)
            /\ pc' = [pc EXCEPT ![r] = "delete_db"]
            /\ local' = [local EXCEPT ![r] = [NoLocal EXCEPT !.doc = doc_id]]
            /\ UNCHANGED <<resp, handles>>
       ELSE /\ Respond(r, [op |-> "delete", status |-> 500, document_id |-> doc_id])
            /\ vector_store' = None
            /\ UNCHANGED <<index, document_processor, rag_service>>
    /\ UNCHANGED <<booted, env, destinations, qdrantUp, chatVars, dbVars, ghosts, planVars>>

\* delete_document running its two DELETE statements before the call to the
\* vector store.
DeleteVectors_RowsFirst(r, doc_id) ==
    /\ booted /\ Free(r)
    /\ DeleteAvailable
    /\ IF qdrantUp
       THEN /\ index' = DeleteByDocument(index, doc_id)
            /\ pc' = [pc EXCEPT ![r] = "delete_db"]
            /\ local' = [local EXCEPT ![r] = [NoLocal EXCEPT !.doc = doc_id]]
            /\ UNCHANGED <<resp, dbVars>>
       ELSE /\ chunks' = chunks \ RowsOf(doc_id)
            /\ documents' = {d \in documents : d.id # doc_id}
            /\ Respond(r, [op |-> "delete", status |-> 500, document_id |-> doc_id])
            /\ UNCHANGED <<index, nextDocId>>
    /\ UNCHANGED <<booted, env, destinations, handles, qdrantUp, chatVars, ghosts, planVars>>

\* delete_document, line 1201: vector_store.delete_document; an error becomes
\* a 500.  The response carries the requested id for reference only.
DeleteVectors(r, doc_id) ==
    /\ booted /\ Free(r)
    /\ DeleteAvailable
    /\ IF qdrantUp
       THEN /\ index' = DeleteByDocument(index, doc_id)
            /\ pc' = [pc EXCEPT ![r] = "delete_db"]
            /\ local' = [local EXCEPT ![r] = [NoLocal EXCEPT !.doc = doc_id]]
            /\ UNCHANGED resp
       ELSE /\ Respond(r, [op |-> "delete", status |-> 500, document_id |-> doc_id])
            /\ UNCHANGED index
    /\ UNCHANGED <<booted, env, destinations, handles, qdrantUp, chatVars, dbVars, ghosts, planVars>>

\* delete_document, lines 1204-1211: the rows are deleted and committed and
\* the success response is sent.
DeleteRows(r) ==
    /\ pc[r] = "delete_db"
    /\ LET doc_id == local[r].doc IN
       /\ chunks' = chunks \ RowsOf(doc_id)
       /\ documents' = {d \in documents : d.id # doc_id}
       /\ deletedOk' = IF doc_id < nextDocId THEN deletedOk \cup {doc_id} ELSE deletedOk
       /\ Respond(r, [op |-> "delete", status |-> 200, document_id |-> doc_id])
    /\ UNCHANGED <<booted, env, destinations, handles, qdrantUp, chatVars, nextDocId, index, ingestedOk,
                   planVars>>

\* ------------------------------------------------------------ diagnostics
\* get_qdrant_status, lines 1473-1474: no vector store was set at startup.
StatusNotInitialized(r) ==
    /\ booted /\ Free(r)
    /\ vector_store = None
    /\ Respond(r, [op |-> "qdrant_status", status |-> 200, connected |-> FALSE,
                   index_up |-> qdrantUp])
    /\ UNCHANGED <<booted, env, destinations, handles, qdrantUp, chatVars, dbVars, index, ghosts, planVars>>

\* get_qdrant_status, lines 1476-1477: is_connected() tells whether the
\* database answers; if it does the handler goes on to read the collection.
StatusCheck(r) ==
    /\ booted /\ Free(r)
    /\ vector_store # None
    /\ IF qdrantUp
       THEN /\ pc' = [pc EXCEPT ![r] = "status_info"]
            /\ UNCHANGED <<local, resp>>
       ELSE Respond(r, [op |-> "qdrant_status", status |-> 200, connected |-> FALSE,
                        index_up |-> qdrantUp])
    /\ UNCHANGED <<booted, env, destinations, handles, qdrantUp, chatVars, dbVars, index, ghosts, planVars>>

\* get_qdrant_status, lines 1479-1483: get_collection_info() is called outside
\* any try block.  While the database does not answer it either raises
\* (infoRaises), which leaves the handler as an unhandled error, or comes back
\* with what it has; the handler then reports connected: True.
StatusInfo(r, infoRaises) ==
    /\ pc[r] = "status_info"
    /\ IF ~qdrantUp /\ infoRaises
       THEN Respond(r, [op |-> "qdrant_status", status |-> 500, connected |-> FALSE,
                        index_up |-> qdrantUp])
       ELSE Respond(r, [op |-> "qdrant_status", status |-> 200, connected |-> TRUE,
                        index_up |-> qdrantUp])
    /\ UNCHANGED <<booted, env, destinations, handles, qdrantUp, chatVars, dbVars, index, ghosts, planVars>>

\* ------------------------------------------------- itineraries and routes
\* What rag_service.generate_itinerary / generate_route can come back with: a
\* raised error, or a result that has or lacks its text key ('itinerary',
\* 'route') and has or lacks 'context_sources'.
PlanSources == { << >>, <<"1_0">> }
PlanRaised ==
    [raised |-> TRUE, has_text |-> FALSE, has_sources |-> FALSE, sources |-> << >>]
PlanOutcomes ==
    {PlanRaised}
    \cup { [raised |-> FALSE, has_text |-> h, has_sources |-> FALSE, sources |-> << >>] :
             h \in BOOLEAN }
    \cup { [raised |-> FALSE, has_text |-> h, has_sources |-> TRUE, sources |-> src] :
             h \in BOOLEAN, src \in PlanSources }

\* The RAG service cannot plan without the vector index: while the vector
\* database is down the call raises.
RagPlan(outcome) == IF qdrantUp THEN outcome ELSE PlanRaised

\* result.get('context_sources', [])
ContextSources(result) == IF result.has_sources THEN result.sources ELSE << >>

\* generate_itinerary, lines 1280-1281.
ItineraryRejected ==
    /\ booted
    /\ rag_service = None
    /\ resp' = [op |-> "itinerary", status |-> 503, saved |-> FALSE, index_up |-> qdrantUp]
    /\ UNCHANGED <<booted, env, destinations, handles, qdrantUp, chatVars, dbVars, index, reqVars, ghosts,
                   planVars>>

\* generate_itinerary, lines 1283-1317.  result['itinerary'] is read while the
\* arguments of the INSERT are built, so a result without it saves nothing.
generate_itinerary(outcome) ==
    /\ booted
    /\ rag_service # None
    /\ LET result == RagPlan(outcome) IN
       IF result.raised \/ ~result.has_text
       THEN /\ resp' = [op |-> "itinerary", status |-> 500, saved |-> FALSE,
                        index_up |-> qdrantUp]
            /\ UNCHANGED itineraries
       ELSE /\ itineraries < MaxPlans
            /\ itineraries' = itineraries + 1
            /\ resp' = [op |-> "itinerary", status |-> 201, saved |-> TRUE,
                        index_up |-> qdrantUp, id |-> itineraries + 1,
                        sources |-> ContextSources(result),
                        result_has_sources |-> result.has_sources]
    /\ UNCHANGED <<booted, env, destinations, handles, qdrantUp, chatVars, dbVars, index, reqVars, ghosts,
                   routes>>

\* generate_route, lines 1382-1383.
RouteRejected ==
    /\ booted
    /\ rag_service = None
    /\ resp' = [op |-> "route", status |-> 503, saved |-> FALSE, index_up |-> qdrantUp]
    /\ UNCHANGED <<booted, env, destinations, handles, qdrantUp, chatVars, dbVars, index, reqVars, ghosts,
                   planVars>>

\* generate_route copying 'context_sources' into the response only when the
\* result has it.
generate_route_SourcesOptional(outcome) ==
    /\ booted
    /\ rag_service # None
    /\ LET result == RagPlan(outcome) IN
       IF result.raised
       THEN /\ resp' = [op |-> "route", status |-> 500, saved |-> FALSE,
                        index_up |-> qdrantUp]
            /\ UNCHANGED routes
       ELSE /\ routes < MaxPlans
            /\ routes' = routes + 1
            /\ resp' = IF ~result.has_text
                       THEN [op |-> "route", status |-> 500, saved |-> TRUE,
                             index_up |-> qdrantUp]
                       ELSE IF result.has_sources
                       THEN [op |-> "route", status |-> 201, saved |-> TRUE,
                             index_up |-> qdrantUp, id |-> routes + 1,
                             sources |-> result.sources,
                             result_has_sources |-> TRUE]
                       ELSE [op |-> "route", status |-> 201, saved |-> TRUE,
                             index_up |-> qdrantUp, id |-> routes + 1,
                             result_has_sources |-> FALSE]
    /\ UNCHANGED <<booted, env, destinations, handles, qdrantUp, chatVars, dbVars, index, reqVars, ghosts,
                   itineraries>>

\* generate_route, lines 1385-1418.  The routes row is committed (line 1406)
\* before result['route'] is read (line 1411).
generate_route(outcome) ==
    /\ booted
    /\ rag_service # None
    /\ LET result == RagPlan(outcome) IN
       IF result.raised
       THEN /\ resp' = [op |-> "route", status |-> 500, saved |-> FALSE,
                        index_up |-> qdrantUp]
            /\ UNCHANGED routes
       ELSE /\ routes < MaxPlans
            /\ routes' = routes + 1
            /\ resp' = IF result.has_text
                       THEN [op |-> "route", status |-> 201, saved |-> TRUE,
                             index_up |-> qdrantUp, id |-> routes + 1,
                             sources |-> ContextSources(result),
                             result_has_sources |-> result.has_sources]
                       ELSE [op |-> "route", status |-> 500, saved |-> TRUE,
                             index_up |-> qdrantUp]
    /\ UNCHANGED <<booted, env, destinations, handles, qdrantUp, chatVars, dbVars, index, reqVars, ghosts,
                   itineraries>>

\* ------------------------------------------------------------ destinations
\* The category parameter of GET /destinations: absent, empty, or a category.
Categories == {None, "", "Tarihi", "Dini", "Muze", "Doga"}

\* get_destinations, lines 603-637: every row, or the rows of one category;
\* `if category:` takes an empty text for an absent one.
get_destinations(category) ==
    /\ booted
    /\ LET rows == IF category \in {None, ""}
                   THEN destinations
                   ELSE SelectSeq(destinations, LAMBDA row : row.category = category)
       IN resp' = [op |-> "destinations", status |-> 200, category |-> category,
                   destinations |-> rows]
    /\ UNCHANGED <<booted, env, destinations, handles, qdrantUp, chatVars, dbVars, index,
                   reqVars, ghosts, planVars>>

\* Lines 1485-1502: the process ends and the program is started again on the
\* same database file and vector database.  The module globals and the
\* requests in progress are gone; the tables and the index stay.
Restart ==
    /\ booted
    /\ booted' = FALSE
    /\ vector_store' = None
    /\ document_processor' = None
    /\ rag_service' = None
    /\ chat' = NoChat
    /\ pc' = [r \in Req |-> "idle"]
    /\ local' = [r \in Req |-> NoLocal]
    /\ UNCHANGED <<env, destinations, qdrantUp, chatsServed, conversations, dbVars, index,
                   resp, ghosts, planVars>>

\* ------------------------------------------------------- canned answers
\* A text is handed to generate_simple_response.
SimplePrompts == {[op |-> "simple_prompt", status |-> 0, prompt |-> t] : t \in Texts}

\* generate_simple_response is applied to the text.
SimpleResponse ==
    /\ resp.op = "simple_prompt"
    /\ resp' = [op |-> "simple_response", status |-> 0, prompt |-> resp.prompt,
                response |-> generate_simple_response(resp.prompt)]
    /\ UNCHANGED <<booted, env, destinations, handles, qdrantUp, chatVars, dbVars, index,
                   reqVars, ghosts, planVars>>

Boot == \E a, b, c, d \in BOOLEAN : init_db(a, b, c, d)

Next ==
    \/ Boot
    \/ QdrantFlips
    \/ \E r \in Req : IngestRejected(r)
    \/ \E r \in Req : IngestProcessingFails(r)
    \/ \E r \in Req, n \in ChunkCounts, t \in DocTypes :
          nextDocId <= MaxDocs /\ IngestCommit(r, n, t)
    \/ \E r \in Req : IngestAdd(r)
    \/ \E r \in Req : SearchRejected(r)
    \/ \E r \in Req : SearchFails(r)
    \/ \E r \in Req, k \in TopKs, f \in {None, "route"} :
          search_documents(r, "gobeklitepe tarihi", k, f)
    \/ \E r \in Req : DeleteRejected(r)
    \/ \E r \in Req, d \in DocIds : DeleteVectors(r, d)
    \/ \E r \in Req : DeleteRows(r)

Spec == InitDocs /\ [][Next]_vars

NextPlan ==
    \/ Boot
    \/ QdrantFlips
    \/ ItineraryRejected
    \/ \E o \in PlanOutcomes : generate_itinerary(o)
    \/ RouteRejected
    \/ \E o \in PlanOutcomes : generate_route(o)

SpecPlan == Init /\ [][NextPlan]_vars

\* The conversations table outlives the process: a row saved by an earlier run.
KeptLog ==
    conversations = <<[user_id |-> "user1", message |-> <<"merhaba">>,
                       response |-> AnsLandmark, timestamp |-> 1]>>

InitHistory == InitServices /\ DefaultSettings /\ KeptLog /\ EmptyStores

\* Chat requests are served and chat histories are read.
HistoryMessages == {<<"merhaba">>, <<"OTEL", "onerisi">>}

NextHistory ==
    \/ Boot
    \/ \E u \in Users, m \in HistoryMessages : ChatRag(u, m, "tr")
    \/ \E u \in Users, m \in HistoryMessages : ChatRagFails(u, m, "tr")
    \/ \E u \in Users, m \in HistoryMessages : ChatNoRag(u, m, "tr")
    \/ \E reply \in Replies : LlmReplies(reply)
    \/ \E u \in Users, limit \in 1..MaxHistory : get_chat_history(u, limit)

SpecHistory == InitHistory /\ [][NextHistory]_vars

\* Every handler of the service, one request at a time at the document and
\* status endpoints; the vector database is up, or down, for the whole run.
NextAll ==
    \/ Boot
    \/ \E r \in OneWorker : IngestRejected(r)
    \/ \E r \in OneWorker : IngestProcessingFails(r)
    \/ \E r \in OneWorker : nextDocId <= MaxDocs /\ IngestCommit(r, 1, "general")
    \/ \E r \in OneWorker : IngestAdd(r)
    \/ \E r \in OneWorker : SearchRejected(r)
    \/ \E r \in OneWorker : SearchFails(r)
    \/ \E r \in OneWorker : search_documents(r, "gobeklitepe tarihi", 1, None)
    \/ \E r \in OneWorker : DeleteRejected(r)
    \/ \E r \in OneWorker, d \in DocIds : DeleteVectors(r, d)
    \/ \E r \in OneWorker : DeleteRows(r)
    \/ \E r \in OneWorker : StatusNotInitialized(r)
    \/ \E r \in OneWorker : StatusCheck(r)
    \/ \E r \in OneWorker, infoRaises \in BOOLEAN : StatusInfo(r, infoRaises)
    \/ ChatRag("user1", <<"merhaba">>, "tr")
    \/ ChatRagFails("user1", <<"merhaba">>, "tr")
    \/ ChatNoRag("user1", <<"merhaba">>, "tr")
    \/ \E reply \in Replies : LlmReplies(reply)
    \/ LlmSilent
    \/ get_chat_history("user1", 1)
    \/ ItineraryRejected
    \/ \E o \in PlanOutcomes : generate_itinerary(o)
    \/ RouteRejected
    \/ \E o \in PlanOutcomes : generate_route(o)

SpecAll == Init /\ [][NextAll]_vars

\* The process is started under any setting of the environment and then asked
\* for its status and for document operations.
InitStartup == InitServices /\ env \in Envs /\ EmptyLog /\ EmptyStores

NextStartup ==
    \/ Boot
    \/ QdrantFlips
    \/ \E r \in Req : StatusNotInitialized(r)
    \/ \E r \in Req : StatusCheck(r)
    \/ \E r \in Req, infoRaises \in BOOLEAN : StatusInfo(r, infoRaises)
    \/ \E r \in Req : IngestRejected(r)
    \/ \E r \in Req : SearchRejected(r)
    \/ \E r \in Req : IngestProcessingFails(r)

SpecStartup == InitStartup /\ [][NextStartup]_vars

\* Documents are ingested and searched with every query, limit and filter, one
\* request at a time: a search reads the index in a single call.
NextSearch ==
    \/ Boot
    \/ QdrantFlips
    \/ \E r \in OneWorker, n \in ChunkCounts, t \in DocTypes :
          nextDocId <= MaxIds /\ IngestCommit(r, n, t)
    \/ \E r \in OneWorker : IngestAdd(r)
    \/ \E r \in OneWorker : SearchRejected(r)
    \/ \E r \in OneWorker : SearchFails(r)
    \/ \E r \in OneWorker, q \in Queries, k \in 1..MaxLimit, f \in FilterInputs :
          search_documents(r, q, k, f)

SpecSearch == Init /\ [][NextSearch]_vars

\* Documents are ingested and deleted, several ids one after another, by two
\* workers.
NextIds ==
    \/ Boot
    \/ QdrantFlips
    \/ \E r \in IdWorkers, n \in 1..MaxChunks :
          nextDocId <= MaxIds /\ IngestCommit(r, n, "general")
    \/ \E r \in IdWorkers : IngestAdd(r)
    \/ \E r \in IdWorkers, d \in 1..MaxIds : DeleteVectors(r, d)
    \/ \E r \in IdWorkers : DeleteRows(r)

SpecIds == Init /\ [][NextIds]_vars

\* The vector database does not answer while the process starts and comes up
\* later; its collection and the relational tables hold the document of an
\* earlier run.
InitLate == InitServices /\ ~qdrantUp /\ DefaultSettings /\ EmptyLog /\ KeptStores

NextLate ==
    \/ Boot
    \/ booted /\ QdrantFlips
    \/ \E r \in OneWorker : IngestRejected(r)
    \/ \E r \in OneWorker, n \in ChunkCounts, t \in DocTypes :
          nextDocId <= MaxIds /\ IngestCommit(r, n, t)
    \/ \E r \in OneWorker : IngestAdd(r)
    \/ \E r \in OneWorker : SearchRejected(r)
    \/ \E r \in OneWorker : SearchFails(r)
    \/ \E r \in OneWorker, q \in Queries, k \in TopKs, f \in FilterInputs :
          search_documents(r, q, k, f)

SpecLate == InitLate /\ [][NextLate]_vars

\* The program is started MaxRuns times on one database file, and the
\* destinations are listed in between.
NextRuns ==
    \/ Len(destinations) < MaxRuns * Len(sample_destinations) /\ Boot
    \/ Restart
    \/ QdrantFlips
    \/ \E category \in Categories : get_destinations(category)

SpecRuns == Init /\ [][NextRuns]_vars

\* generate_simple_response applied to each text.
InitSimple ==
    /\ booted = FALSE
    /\ vector_store = None
    /\ document_processor = None
    /\ rag_service = None
    /\ qdrantUp = TRUE
    /\ chat = NoChat
    /\ chatsServed = 0
    /\ pc = [r \in Req |-> "idle"]
    /\ local = [r \in Req |-> NoLocal]
    /\ resp \in SimplePrompts
    /\ ingestedOk = {}
    /\ deletedOk = {}
    /\ itineraries = 0
    /\ routes = 0
    /\ DefaultSettings /\ EmptyLog /\ EmptyStores

NextSimple == SimpleResponse

SpecSimple == InitSimple /\ [][NextSimple]_vars

NextRag ==
    \/ Boot
    \/ QdrantFlips
    \/ \E u \in Users, m \in Messages, l \in Languages : ChatRag(u, m, l)
    \/ \E u \in Users, m \in Messages, l \in Languages : ChatRagFails(u, m, l)
    \/ \E u \in Users, m \in Messages, l \in Languages : ChatNoRag(u, m, l)
    \/ \E reply \in Replies : LlmReplies(reply)
    \/ LlmSilent

SpecRag == Init /\ [][NextRag]_vars

\* A pending requests.post is resolved by the generation service: it answers,
\* refuses, or goes silent for good.
LlmStep == (\E reply \in Replies : LlmReplies(reply)) \/ LlmSilent
FairSpecRag == SpecRag /\ WF_vars(LlmStep)

\* ------------------------------------------------------- generation chain
ChatDoneViaLlm == chat.pc = "done" /\ chat.via = "llm"
PrimarySucceeded(reply) == reply.kind = "http" /\ reply.status = 200 /\ reply.parses

\* C1: whatever requests.post comes back with, query_llm returns a non-empty
\* string to its caller.
C1_QueryLlmNonEmpty == ChatDoneViaLlm => chat.response # << >>

\* C2: when the primary generation call fails during a chat request, the canned
\* answer is the one generate_simple_response selects for the user's message.
C2_FallbackReadsUserMessage ==
    (ChatDoneViaLlm /\ chat.fallbacks = 1)
        => chat.response = generate_simple_response(chat.message)

C4_SilentCallReturns == (chat.pc = "llm_hung") ~> (chat.pc = "done")

\* C5: query_llm is a strict ordered chain: one primary call; a 200 answer with
\* a 'response' text is returned verbatim and the fallback is not consulted; the
\* fallback is consulted, once, only when the primary call raised, came back
\* with another status, or its body could not be read.
C5_StrictChain ==
    ChatDoneViaLlm =>
        /\ chat.posts = 1
        /\ chat.fallbacks \in {0, 1}
        /\ PrimarySucceeded(chat.reply) =>
              chat.fallbacks = 0 /\ chat.response = chat.reply.response
        /\ chat.fallbacks = 1 =>
              /\ ~PrimarySucceeded(chat.reply)
              /\ chat.response = generate_simple_response(chat.prompt)

\* The service answered 200 with an empty text and it was returned as it is.
C5_Witness ==
    /\ ChatDoneViaLlm /\ PrimarySucceeded(chat.reply)
    /\ chat.reply.response = << >> /\ chat.response = << >> /\ chat.fallbacks = 0

\* ------------------------------------------------------ conversation log
\* C19: a chat request that returns has appended exactly one conversations
\* row, with its user_id, its message and the text returned; rows are never
\* removed or changed; and a get_chat_history whose limit is not below the
\* number of rows of the user returns every row of that user.
C19_ReturnedChatIsLogged ==
    [][ /\ (chat'.pc = "done" /\ chat' # chat) =>
              /\ Len(conversations') = Len(conversations) + 1
              /\ LET row == conversations'[Len(conversations')] IN
                    /\ row.user_id = chat'.user_id
                    /\ row.message = chat'.message
                    /\ row.response = chat'.response
        /\ Len(conversations') >= Len(conversations)
        /\ SubSeq(conversations', 1, Len(conversations)) = conversations
        /\ (resp' # resp /\ resp'.op = "history"
              /\ resp'.limit >= Cardinality(RowsOfUser(resp'.user_id))) =>
              \A i \in RowsOfUser(resp'.user_id) :
                  \E a \in DOMAIN resp'.history :
                      /\ resp'.history[a].message = conversations[i].message
                      /\ resp'.history[a].response = conversations[i].response
      ]_vars

\* A chat request of user1 was answered by the rule-based fallback, and the
\* history then read for user1 holds that answer first and the older row
\* after it.
C19_Witness ==
    /\ ChatDoneViaLlm /\ chat.fallbacks = 1 /\ chat.user_id = "user1"
    /\ resp.op = "history" /\ resp.user_id = "user1" /\ Len(resp.history) = 2
    /\ resp.history[1].response = chat.response
    /\ resp.history[1].message = chat.message
    /\ resp.history[1].timestamp > resp.history[2].timestamp

\* ------------------------------------------------------- document stores
AllIdle     == \A r \in Req : pc[r] = "idle"
HasRow(d)   == \E row \in documents : row.id = d
InFlight(d) == \E r \in Req : pc[r] # "idle" /\ local[r].doc = d
RowVectorIds(d) == {c.vector_id : c \in RowsOf(d)}
RecVectorIds(d) == {index[i].vector_id : i \in RecordsOf(d)}
FullyPresent(d) == HasRow(d) /\ RowVectorIds(d) = RecVectorIds(d)
FullyAbsent(d)  == ~HasRow(d) /\ RowsOf(d) = {} /\ RecordsOf(d) = {}
Returned(results) == {results[i].document_id : i \in DOMAIN results}

\* C6: once delete_document(doc_id) has answered "deleted", no search, whatever
\* its top_k and filter, returns a result of doc_id, and no documents row and no
\* chunk row of doc_id is left.
C6_DeletionTotal ==
    \A d \in deletedOk :
        /\ ~HasRow(d) /\ RowsOf(d) = {}
        /\ \A q \in Queries, k \in TopKs, f \in FilterInputs :
              d \notin Returned(Search(index, q, k, FilterDict(f)))

\* C7: whenever no request is in progress, the chunk rows and the index records
\* correspond one to one through vector_id.
C7_RowsMatchVectors ==
    AllIdle => {c.vector_id : c \in chunks} = IndexIds

\* C8: when an ingest that created document d and a delete of d have both
\* answered with success, d is in both stores or in neither.
C8_NoPartialInterleaving ==
    \A d \in ingestedOk \cap deletedOk :
        ~InFlight(d) => FullyPresent(d) \/ FullyAbsent(d)

\* C10: with vector_store None nothing is written to either store, with
\* document_processor None no document is added, and ingest_document,
\* search_documents and delete_document answer 503 when a service they need was
\* not initialized.
C10_UninitializedIs503 ==
    [][ /\ vector_store = None => UNCHANGED <<dbVars, index>>
        /\ document_processor = None =>
              /\ nextDocId' = nextDocId
              /\ documents' \subseteq documents
              /\ chunks' \subseteq chunks
              /\ Len(index') <= Len(index)
        /\ (resp' # resp /\ resp'.op = "ingest" /\ ~IngestAvailable) => resp'.status = 503
        /\ (resp' # resp /\ resp'.op = "search" /\ ~SearchAvailable) => resp'.status = 503
        /\ (resp' # resp /\ resp'.op = "delete" /\ ~DeleteAvailable) => resp'.status = 503
      ]_vars

\* ingest_document has answered 503 for want of the vector store while the
\* stores hold a document, which is still whole.
C10_Witness ==
    /\ vector_store = None /\ document_processor # None
    /\ resp.op = "ingest" /\ resp.status = 503
    /\ HasRow(1) /\ RowsOf(1) # {} /\ FullyPresent(1)

\* C11: when the services were initialized but the vector index is unreachable
\* at request time, ingest_document, search_documents and delete_document
\* answer 503 (not 500, and not success).
C11_UnreachableIs503 ==
    [][ (~qdrantUp /\ resp' # resp) =>
          /\ (\E r \in Req : pc[r] = "ingest_add" /\ pc'[r] = "idle") => resp'.status = 503
          /\ (resp'.op = "search" /\ SearchAvailable) => resp'.status = 503
          /\ (resp'.op = "delete" /\ DeleteAvailable /\ pc' = pc) => resp'.status = 503
      ]_vars

\* C12: when process_document or embed_chunks fails, ingest_document answers
\* with an error that carries a message, and no documents row, no chunk row and
\* no vector record has been created.
C12_FailedProcessingPersistsNothing ==
    [][ (resp' # resp /\ resp'.op = "ingest" /\ resp'.status = 500 /\ pc' = pc) =>
          /\ UNCHANGED <<documents, nextDocId, chunks, index>>
          /\ resp'.detail # ""
      ]_vars

\* Processing failed for the first document ever submitted: the error has been
\* sent and both stores are as empty as before.
C12_Witness ==
    /\ resp.op = "ingest" /\ resp.status = 500 /\ resp.detail = IngestErrorDetail
    /\ AllIdle /\ nextDocId = 1 /\ documents = {} /\ chunks = {} /\ index = << >>

\* Every vector_id, in the chunk rows and in the index, is
\* "{document_id}_{chunk_index}", and no two chunk rows share one.
VectorIdsWellFormed ==
    /\ \A c \in chunks : c.vector_id = VectorId(c.document_id, c.chunk_index)
    /\ \A i \in DOMAIN index :
          index[i].vector_id = VectorId(index[i].document_id, index[i].chunk_index)
    /\ \A c1, c2 \in chunks : c1.vector_id = c2.vector_id => c1 = c2

\* The vector ids that are in use, or were given to a document since deleted.
UsedVectorIds ==
    {c.vector_id : c \in chunks} \cup IndexIds
    \cup {VectorId(d, i) : d \in deletedOk, i \in 0..(MaxChunks - 1)}

\* C13: every chunk's vector_id is "{document_id}_{chunk_index}"; an ingest
\* gives each of its chunks a vector_id that no chunk row and no index record
\* has and that no deleted document ever had.
C13_VectorIdsNeverReused ==
    [][ /\ VectorIdsWellFormed'
        /\ \A r \in Req : (pc[r] = "idle" /\ pc'[r] = "ingest_add") =>
              /\ local'[r].doc \notin deletedOk
              /\ Cardinality(chunks') = Cardinality(chunks) + local'[r].n
              /\ \A c \in chunks' \ chunks :
                    /\ c.document_id = local'[r].doc
                    /\ c.vector_id \notin UsedVectorIds
      ]_vars

\* Document 1 was ingested and deleted and document 2 was ingested: its chunks
\* carry ids that begin with 2.
C13_Witness ==
    /\ 1 \in ingestedOk /\ 1 \in deletedOk /\ 2 \in ingestedOk
    /\ FullyAbsent(1) /\ RowsOf(2) # {}
    /\ \A c \in RowsOf(2) : c.vector_id = VectorId(2, c.chunk_index)

\* C22: when an ingest answers with success, chunks_created equals the number
\* of chunk rows stored for the returned document_id and the number of records
\* handed to the index in the one add_documents call, and those rows carry
\* each chunk_index the chunker produced exactly once.
C22_ChunksCreatedIsExact ==
    [][ \A r \in Req :
          (pc[r] = "ingest_add" /\ pc'[r] = "idle" /\ resp'.status = 200) =>
              LET stored == {c \in chunks' : c.document_id = resp'.document_id}
                  handed == {i \in DOMAIN index' :
                               index'[i].document_id = resp'.document_id}
              IN /\ resp'.document_id = local[r].doc
                 /\ resp'.chunks_created = Cardinality(stored)
                 /\ resp'.chunks_created = Cardinality(handed)
                 /\ {c.chunk_index : c \in stored} = ChunkIndexes(resp'.chunks_created)
      ]_vars

\* C23: a request handler upserts into or searches the index only after
\* init_db has run ensure_collection(384) with success.  When the index was
\* not connected while init_db ran (every run of SpecLate), ensure_collection
\* was skipped, so no later request writes to the index and no search of it
\* returns.
C23_NoIndexUseWithoutEnsure ==
    /\ index = ChunkRecords(1, 1, "general")
    /\ ~(resp.op = "search" /\ resp.status = 200)

\* C24: when the vector-index step of delete_document(doc_id) fails, the
\* request ends with an error response and the relational store is as it
\* was: the document row and every chunk row of doc_id are still there.
C24_FailedDeleteKeepsRows ==
    [][ (resp' # resp /\ resp'.op = "delete" /\ resp'.status = 500) =>
            /\ documents' = documents
            /\ chunks' = chunks
            /\ nextDocId' = nextDocId
            /\ HasRow(resp'.document_id) => \E d \in documents' : d.id = resp'.document_id
            /\ RowsOf(resp'.document_id) \subseteq chunks'
      ]_vars

\* delete_document(1) has failed with 500 while document 1 and its chunk row
\* are stored.
C24_Witness ==
    /\ resp.op = "delete" /\ resp.status = 500 /\ resp.document_id = 1
    /\ HasRow(1)
    /\ RowsOf(1) # {}

\* The vector ids of the chunks of the ingest that request q has in flight.
OwnVectorIds(q) == {VectorId(local[q].doc, i) : i \in ChunkIndexes(local[q].n)}

\* C25: however concurrent ingests interleave, each successful one answers
\* with a document_id no other ingest has or was given, the chunk rows and
\* index records of a request carry only its own document_id, and the
\* vector ids of two requests never overlap.
C25_ConcurrentIngestsAreDisjoint ==
    [][ \A r \in Req :
          /\ (pc[r] = "idle" /\ pc'[r] = "ingest_add") =>
                \A q \in Req \ {r} : pc[q] = "ingest_add" =>
                    /\ local'[r].doc # local[q].doc
                    /\ \A c \in chunks' \ chunks :
                          /\ c.document_id # local[q].doc
                          /\ c.vector_id \notin OwnVectorIds(q)
          /\ (pc[r] = "ingest_add" /\ pc'[r] = "idle" /\ resp'.status = 200) =>
                /\ resp'.document_id \notin ingestedOk
                /\ \A i \in DOMAIN index' :
                      index'[i].vector_id \notin IndexIds =>
                          index'[i].document_id = resp'.document_id
                /\ \A q \in Req \ {r} : pc[q] = "ingest_add" =>
                      /\ resp'.document_id # local[q].doc
                      /\ \A i \in DOMAIN index' :
                            index'[i].vector_id \in OwnVectorIds(q) =>
                                index'[i].vector_id \in IndexIds
      ]_vars

\* Two ingests are in flight together: both have committed their rows and
\* neither has called add_documents yet.
C25_Witness ==
    /\ pc[1] = "ingest_add" /\ pc[2] = "ingest_add"
    /\ RowsOf(local[1].doc) # {} /\ RowsOf(local[2].doc) # {}

\* ---------------------------------------------------------- canned answers
CannedAnswers == {AnsLandmark, AnsLodging, AnsFood, AnsTransport, AnsDefault}

\* The lower-cased text has the word, or the two words one after the other.
HasWord(t, w)    == \E i \in DOMAIN t : Lower(t[i]) = w
HasPair(t, a, b) == \E i \in DOMAIN t : i < Len(t) /\ Lower(t[i]) = a /\ Lower(t[i + 1]) = b

Landmark(t)  == HasWord(t, "gobeklitepe")
Lodging(t)   == HasWord(t, "otel") \/ HasWord(t, "konaklama")
Food(t)      == HasWord(t, "yemek") \/ HasPair(t, "ne", "yenir")
Transport(t) == HasWord(t, "ulas1m")

\* C26: generate_simple_response answers every text with exactly one of the
\* five canned answers, fixed by the text alone: the landmark answer when the
\* landmark word occurs, else the lodging answer when a lodging word occurs,
\* else the food answer, else the transportation answer, else the default.
C26_FixedTriggerPriority ==
    resp.op = "simple_response" =>
        LET t == resp.prompt
            a == resp.response
        IN /\ a \in CannedAnswers
           /\ Cardinality(CannedAnswers) = 5
           /\ Landmark(t) => a = AnsLandmark
           /\ (~Landmark(t) /\ Lodging(t)) => a = AnsLodging
           /\ (~Landmark(t) /\ ~Lodging(t) /\ Food(t)) => a = AnsFood
           /\ (~Landmark(t) /\ ~Lodging(t) /\ ~Food(t) /\ Transport(t)) => a = AnsTransport
           /\ (~Landmark(t) /\ ~Lodging(t) /\ ~Food(t) /\ ~Transport(t)) => a = AnsDefault

\* A text with a food, a lodging and the landmark trigger, in this order, has
\* been answered.
C26_Witness ==
    /\ resp.op = "simple_response"
    /\ resp.prompt = <<"yemek", "OTEL", "Gobeklitepe">>

\* ------------------------------------------------------------ destinations
\* C27: init_db run again on the same database leaves the destinations table
\* as the first run left it: no sample destination is stored twice, and none
\* is listed twice by get_destinations.
C27_InitDbIdempotent ==
    /\ \A i, j \in DOMAIN destinations :
          destinations[i].name = destinations[j].name => i = j
    /\ resp.op = "destinations" =>
          \A i, j \in DOMAIN resp.destinations :
              resp.destinations[i].name = resp.destinations[j].name => i = j

\* C18: delete_document on an id that was never given to a document reports
\* NotFound (404) instead of the status "deleted".
C18_UnknownIdIsNotFound ==
    [][ \A r \in Req :
          (pc[r] = "delete_db" /\ pc'[r] = "idle" /\ local[r].doc >= nextDocId) =>
              resp'.status = 404
      ]_vars

\* ---------------------------------------------------------------- search
\* C16: a successful search embeds the query once and searches the index
\* once with limit top_k; the response carries that search's results as they
\* are, at most top_k of them, in non-increasing score order, and count is
\* their number.
C16_SearchReturnsIndexResults ==
    [][ (resp' # resp /\ resp'.op = "search" /\ resp'.status = 200) =>
          /\ resp'.embeds = 1 /\ resp'.searches = 1
          /\ resp'.results = Search(index, resp'.query, resp'.top_k,
                                    FilterDict(resp'.filter_type))
          /\ Len(resp'.results) <= resp'.top_k
          /\ \A i \in 1..(Len(resp'.results) - 1) :
                resp'.results[i].score >= resp'.results[i + 1].score
          /\ resp'.count = Len(resp'.results)
      ]_vars

\* A search with top_k 2 has returned two results of different score, the
\* later chunk first: the ranking is not the order of insertion.
C16_Witness ==
    /\ resp.op = "search" /\ resp.status = 200 /\ resp.top_k = 2 /\ resp.count = 2
    /\ resp.results[1].score > resp.results[2].score
    /\ resp.results[1].document_id = resp.results[2].document_id
    /\ resp.results[1].chunk_index > resp.results[2].chunk_index

\* C17: every result of a search whose filter_type was supplied (any string,
\* not null) has that type.
C17_SuppliedFilterIsApplied ==
    (resp.op = "search" /\ resp.status = 200 /\ resp.filter_type # None) =>
        \A i \in DOMAIN resp.results : resp.results[i].type = resp.filter_type

\* --------------------------------------------------------- service handles
\* C20: vector_store, document_processor and rag_service are assigned by
\* init_db at process start and by nothing else: no step of a request handler
\* changes any of the three.
C20_HandlesSetOnce ==
    [][ (handles' # handles \/ booted) =>
          /\ booted'
          /\ booted => UNCHANGED handles
      ]_vars

\* All three handles were set at startup and are still set after a delete
\* request has failed on the unreachable index.
C20_Witness ==
    /\ booted
    /\ vector_store = Obj /\ document_processor = Obj /\ rag_service = Obj
    /\ resp.op = "delete" /\ resp.status = 500

\* ------------------------------------------------ diagnostics and startup
\* C14: get_qdrant_status never raises, and whenever the vector database does
\* not answer at the moment it returns, it reports connected = false.
C14_StatusProbeNeverRaises ==
    resp.op = "qdrant_status" =>
        /\ resp.status = 200
        /\ ~resp.index_up => ~resp.connected

\* chunk_size and chunk_overlap are positive integers, chunk_overlap < chunk_size.
ConfigValid ==
    LET chunk_size    == ParseInt(env.CHUNK_SIZE)
        chunk_overlap == ParseInt(env.CHUNK_OVERLAP)
    IN  /\ chunk_size.ok /\ chunk_overlap.ok
        /\ chunk_size.value > 0 /\ chunk_overlap.value > 0
        /\ chunk_overlap.value < chunk_size.value

\* C15: under an invalid chunk setting startup fails: init_db does not complete
\* and no request is ever answered.
C15_InvalidConfigFailsStartup ==
    ~ConfigValid => (~booted /\ resp = NoResp)

\* --------------------------------------------------- itineraries and routes
\* C9: when the retriever or the vector index is unavailable, generate_itinerary
\* and generate_route answer 503 and save no row.
C9_PlanUnavailableIs503 ==
    (resp.op \in {"itinerary", "route"} /\ (rag_service = None \/ ~resp.index_up))
        => resp.status = 503 /\ ~resp.saved

\* C21: every successful response of generate_itinerary and generate_route has
\* a sources list, and the list is empty when the RAG result carried none.
C21_SourcesAlwaysPresent ==
    (resp.op \in {"itinerary", "route"} /\ resp.status = 201) =>
        /\ "sources" \in DOMAIN resp
        /\ resp.sources \in PlanSources
        /\ ~resp.result_has_sources => resp.sources = << >>

\* A route was generated from a result without 'context_sources' and the
\* response carries the empty list.
C21_Witness ==
    /\ resp.op = "route" /\ resp.status = 201
    /\ ~resp.result_has_sources /\ resp.sources = << >>

====
